---- MODULE Spec2Model ----
(***************************************************************************)
(* Model of the image-analysis pipeline of SF-AI-SQL-Demo: the validator   *)
(* (validators.py), the uploader (azure_uploader.py), the warehouse        *)
(* analyzer (snowflake_analyzer.py), the in-warehouse dispatchers          *)
(* (streamlit_app.py, streamlit_app_select_only.py) and the request        *)
(* handler of app.py.                                                      *)
(*                                                                         *)
(* Text is a sequence of elements.  An element of length one is that       *)
(* character; a longer element stands for a fixed run of letters or digits *)
(* of a template or of a formatted timestamp ("images", "20250101").       *)
(***************************************************************************)
EXTENDS Integers, Sequences, FiniteSets, TLC

VARIABLES
    pc,                   \* position of the running handler
    uploaded_file,        \* the submission: name, size, type, decodable, width, height, pos
    model,                \* selected model identifier
    prompt,               \* prompt template text
    is_valid,             \* verdict returned by validate_image
    error_msg,            \* lines of the message returned by validate_image
    clock,                \* wall clock, in seconds
    connection_string,    \* the uploader's connection string: "None" or "set"
    temp_stage,           \* temp_upload_stage: whether it exists, its files, its directory table
    run_log,              \* rows of AI_IMAGE_RUN_LOG, in insertion order
    blob_store,           \* objects of the blob container
    file_path,            \* relative path returned by upload_image
    connection,           \* analyzer.connection: "None", "open" or "closed"
    catalog,              \* directory table of the stage
    snowflake_file_path,  \* path handed to the analysis query
    query,                \* fragments of the last query text built by a dispatcher
    result,               \* (success, value) returned by the dispatcher
    ui,                   \* messages surfaced to the user, in order
    trace,                \* external calls issued by the request, in order
    sessions              \* browser sessions running a call side by side, each with its locals

vars == <<pc, uploaded_file, model, prompt, is_valid, error_msg, clock,
          connection_string, temp_stage, run_log, blob_store,
          file_path, connection, catalog, snowflake_file_path, query, result, ui, trace,
          sessions>>

pipeline_vars == <<clock, connection_string, temp_stage, run_log, blob_store, file_path,
                   connection, catalog,
                   snowflake_file_path, query, result, ui, trace, sessions>>

----------------------------------------------------------------------------
(* Text helpers *)

\* the "in" test of one text in another
Contains(s, sub) == \E i \in 1..(Len(s) - Len(sub) + 1) : SubSeq(s, i, i + Len(sub) - 1) = sub

\* str.replace(old, new) for a one-character old
RECURSIVE Replace(_, _, _)
Replace(s, old, new) ==
    IF s = <<>> THEN <<>>
    ELSE (IF Head(s) = old THEN new ELSE <<Head(s)>>) \o Replace(Tail(s), old, new)

\* str.rfind: the last index of c in s, 0 when absent
RFind(s, c) ==
    LET idx == {i \in 1..Len(s) : s[i] = c}
    IN  IF idx = {} THEN 0 ELSE CHOOSE i \in idx : \A j \in idx : j <= i

LowerOf ==
    [A |-> "a", B |-> "b", E |-> "e", F |-> "f", G |-> "g", I |-> "i", J |-> "j", N |-> "n",
     P |-> "p", T |-> "t", W |-> "w", X |-> "x"]

\* str.lower, element by element
Lower(s) == [i \in 1..Len(s) |-> IF s[i] \in DOMAIN LowerOf THEN LowerOf[s[i]] ELSE s[i]]

\* os.path.splitext: the extension starts at the last dot of the last path
\* component, unless only dots precede it in that component
splitext(p) ==
    LET sepIndex == RFind(p, "/")
        dotIndex == RFind(p, ".")
    IN  IF dotIndex > sepIndex /\ \E k \in (sepIndex + 1)..(dotIndex - 1) : p[k] # "."
        THEN <<SubSeq(p, 1, dotIndex - 1), SubSeq(p, dotIndex, Len(p))>>
        ELSE <<p, <<>>>>

----------------------------------------------------------------------------
(* config.py *)

SUPPORTED_FORMATS ==
    { <<".", "j", "p", "g">>, <<".", "j", "p", "e", "g">>, <<".", "p", "n", "g">>,
      <<".", "g", "i", "f">>, <<".", "w", "e", "b", "p">> }

\* size limits, in hundredths of a megabyte (10 and 3.75)
MAX_SIZE_MB_GENERAL == 1000
MAX_SIZE_MB_CLAUDE == 375

MAX_RESOLUTION_CLAUDE == 8000

CLAUDE_MODELS == {"claude-3.5-sonnet", "claude-3.7-sonnet", "claude-4-sonnet", "claude-4-opus"}

BytesPerMB == 1024 * 1024

----------------------------------------------------------------------------
(* validators.py: ImageValidator.validate_image *)

NoMessage == <<>>

\* f"{file_size_mb:.2f}", in hundredths of a megabyte
SizeMB2f(size) == (size * 100 + BytesPerMB \div 2) \div BytesPerMB

\* FormatErrors comparing the extension as it is spelled
FormatErrors_CaseSensitive(f) ==
    LET file_ext == splitext(f.name)[2]
    IN  IF file_ext \notin SUPPORTED_FORMATS
        THEN << [check |-> "format", ext |-> file_ext] >>
        ELSE <<>>

FormatErrors(f) ==
    LET file_ext == Lower(splitext(f.name)[2])
    IN  IF file_ext \notin SUPPORTED_FORMATS
        THEN << [check |-> "format", ext |-> file_ext] >>
        ELSE <<>>

SizeLimit(model_name) ==
    IF model_name \in CLAUDE_MODELS THEN MAX_SIZE_MB_CLAUDE ELSE MAX_SIZE_MB_GENERAL

\* SizeErrors rejecting at the limit itself
SizeErrors_AtLimit(f, model_name) ==
    LET max_size == SizeLimit(model_name)
    IN  IF f.size * 100 >= max_size * BytesPerMB
        THEN << [check |-> "size", size_mb |-> SizeMB2f(f.size), limit |-> max_size] >>
        ELSE <<>>

SizeErrors(f, model_name) ==
    LET max_size == SizeLimit(model_name)
    IN  IF f.size * 100 > max_size * BytesPerMB
        THEN << [check |-> "size", size_mb |-> SizeMB2f(f.size), limit |-> max_size] >>
        ELSE <<>>

\* ResolutionErrors requiring both axes to exceed the bound
ResolutionErrors_BothAxes(f, model_name) ==
    IF model_name \in CLAUDE_MODELS
    THEN IF ~f.decodable
         THEN << [check |-> "decode"] >>
         ELSE IF f.width > MAX_RESOLUTION_CLAUDE /\ f.height > MAX_RESOLUTION_CLAUDE
              THEN << [check |-> "resolution", width |-> f.width, height |-> f.height] >>
              ELSE <<>>
    ELSE <<>>

ResolutionErrors(f, model_name) ==
    IF model_name \in CLAUDE_MODELS
    THEN IF ~f.decodable
         THEN << [check |-> "decode"] >>
         ELSE IF f.width > MAX_RESOLUTION_CLAUDE \/ f.height > MAX_RESOLUTION_CLAUDE
              THEN << [check |-> "resolution", width |-> f.width, height |-> f.height] >>
              ELSE <<>>
    ELSE <<>>

\* ValidationErrors returning at the first violation
ValidationErrors_FirstOnly(f, model_name) ==
    IF FormatErrors(f) # <<>> THEN FormatErrors(f)
    ELSE IF SizeErrors(f, model_name) # <<>> THEN SizeErrors(f, model_name)
    ELSE ResolutionErrors(f, model_name)

ValidationErrors(f, model_name) ==
    FormatErrors(f) \o SizeErrors(f, model_name) \o ResolutionErrors(f, model_name)

\* "\n".join(errors)
RECURSIVE JoinLines(_)
JoinLines(errors) ==
    IF Len(errors) <= 1 THEN errors
    ELSE << Head(errors), [check |-> "newline"] >> \o JoinLines(Tail(errors))

\* the (is_valid, error_message) pair validate_image returns
validate_image(f, model_name) ==
    LET errors == ValidationErrors(f, model_name)
    IN  IF errors # <<>>
        THEN [is_valid |-> FALSE, message |-> JoinLines(errors)]
        ELSE [is_valid |-> TRUE, message |-> NoMessage]

\* the stream position validate_image leaves behind: Image.open reads the
\* stream and seek(0) runs only when decoding did not raise
HeaderLen == 16

PosAfterValidate(f, model_name) ==
    IF model_name \in CLAUDE_MODELS
    THEN IF f.decodable THEN {0} ELSE {HeaderLen, f.size}
    ELSE {f.pos}

----------------------------------------------------------------------------
(* streamlit_app.py: validate_image *)

\* uploaded_file.name.split('.')[-1]
AfterLastDot(name) == SubSeq(name, RFind(name, ".") + 1, Len(name))

\* the pair validate_image returns: it returns at the first violation
streamlit_validate_image(f, model_name) ==
    LET file_ext == Lower(AfterLastDot(f.name))
        max_size == SizeLimit(model_name)
        failed(entry) == [is_valid |-> FALSE, message |-> <<entry>>]
    IN  IF (<<".">> \o file_ext) \notin SUPPORTED_FORMATS
        THEN failed([check |-> "format", ext |-> file_ext])
        ELSE IF f.size * 100 > max_size * BytesPerMB
        THEN failed([check |-> "size", size_mb |-> SizeMB2f(f.size), limit |-> max_size])
        ELSE IF model_name \in CLAUDE_MODELS /\ ~f.decodable
        THEN failed([check |-> "decode"])
        ELSE IF /\ model_name \in CLAUDE_MODELS
                /\ (f.width > MAX_RESOLUTION_CLAUDE \/ f.height > MAX_RESOLUTION_CLAUDE)
        THEN failed([check |-> "resolution", width |-> f.width, height |-> f.height])
        ELSE [is_valid |-> TRUE, message |-> <<[check |-> "passed"]>>]

\* the stream position it leaves behind: the stream is opened only past the
\* format and size checks, and seek(0) runs only when it returns valid
StreamlitPosAfterValidate(f, model_name) ==
    IF \/ (<<".">> \o Lower(AfterLastDot(f.name))) \notin SUPPORTED_FORMATS
       \/ f.size * 100 > SizeLimit(model_name) * BytesPerMB
       \/ model_name \notin CLAUDE_MODELS
    THEN {f.pos}
    ELSE IF f.decodable /\ f.width <= MAX_RESOLUTION_CLAUDE /\ f.height <= MAX_RESOLUTION_CLAUDE
         THEN {0}
         ELSE {HeaderLen, f.size}

----------------------------------------------------------------------------
(* azure_uploader.py *)

\* the characters of the model's alphabet that \w does not match
NonWord == {" ", "'", ".", "/", "%", "-", "(", ")", "{0}"}

\* ReplaceSpecial replacing white space only
ReplaceSpecial_SpacesOnly(name) ==
    [i \in 1..Len(name) |-> IF name[i] = " " THEN "_" ELSE name[i]]

\* re.sub(r'[^\w\-]', '_', name)
ReplaceSpecial(name) ==
    [i \in 1..Len(name) |-> IF name[i] \in NonWord \ {"-"} THEN "_" ELSE name[i]]

\* re.sub(r'_+', '_', name)
RECURSIVE CollapseUnderscores(_)
CollapseUnderscores(name) ==
    IF Len(name) <= 1 THEN name
    ELSE IF name[1] = "_" /\ name[2] = "_" THEN CollapseUnderscores(Tail(name))
    ELSE <<Head(name)>> \o CollapseUnderscores(Tail(name))

\* name.strip('_')
RECURSIVE StripUnderscores(_)
StripUnderscores(name) ==
    IF name = <<>> THEN name
    ELSE IF Head(name) = "_" THEN StripUnderscores(Tail(name))
    ELSE IF name[Len(name)] = "_" THEN StripUnderscores(SubSeq(name, 1, Len(name) - 1))
    ELSE name

sanitize_filename(filename) ==
    LET name == splitext(filename)[1]
        ext  == splitext(filename)[2]
    IN  StripUnderscores(CollapseUnderscores(ReplaceSpecial(name))) \o Lower(ext)

\* datetime.now().strftime("%Y%m%d_%H%M%S") at each second of the clock
TimeOfDay == <<"120000", "120001", "120002", "120003">>

Timestamp(t) == <<"20250101", "_", TimeOfDay[t + 1]>>

\* BlobName with a timestamp of day resolution
BlobName_DateOnly(t, filename) ==
    <<"images", "/">> \o <<"20250101">> \o <<"_">> \o sanitize_filename(filename)

BlobName(t, filename) == <<"images", "/">> \o Timestamp(t) \o <<"_">> \o sanitize_filename(filename)

\* upload_blob(..., overwrite=True): the object at the key is replaced
UploadBlob(store, blob_name, f, t) ==
    {b \in store : b.name # blob_name}
    \cup {[name |-> blob_name, size |-> f.size, last_modified |-> t, content_type |-> f.type]}

\* the outcomes of one upload_image call: the returned triple and the store
upload_image(f, conn_string, store, t) ==
    IF conn_string = "None"
    THEN { [success |-> FALSE, blob_url |-> <<"Azure connection string not configured in secrets">>,
            relative_path |-> <<>>, store |-> store, called |-> FALSE] }
    ELSE { [success |-> FALSE, blob_url |-> <<"Azure upload error">>,
            relative_path |-> <<>>, store |-> store, called |-> TRUE],
           [success |-> TRUE, blob_url |-> <<"https://">> \o BlobName(t, f.name),
            relative_path |-> BlobName(t, f.name),
            store |-> UploadBlob(store, BlobName(t, f.name), f, t), called |-> TRUE] }

----------------------------------------------------------------------------
(* The warehouse: the stage's directory table and the SQL it evaluates *)

SNOWFLAKE_STAGE_NAME == <<"input_stage">>

\* ALTER STAGE ... REFRESH: the directory table lists the objects of the store
DirectoryOf(store) ==
    {[relative_path |-> b.name, size |-> b.size, last_modified |-> b.last_modified] : b \in store}

\* s LIKE pattern: % matches any run, _ matches one character
RECURSIVE Like(_, _)
Like(s, pattern) ==
    IF pattern = <<>> THEN s = <<>>
    ELSE IF Head(pattern) = "%"
         THEN Like(s, Tail(pattern)) \/ (s # <<>> /\ Like(Tail(s), pattern))
    ELSE IF s = <<>> THEN FALSE
    ELSE IF Head(pattern) = "_"
         THEN Len(Head(s)) = 1 /\ Like(Tail(s), Tail(pattern))
    ELSE Head(s) = Head(pattern) /\ Like(Tail(s), Tail(pattern))

\* file_path.split('/')[-1]
Basename(path) == SubSeq(path, RFind(path, "/") + 1, Len(path))

\* SELECT RELATIVE_PATH FROM DIRECTORY(@stage) WHERE RELATIVE_PATH LIKE
\* '%<basename>%' ORDER BY LAST_MODIFIED DESC LIMIT 1: the rows fetchone may
\* return (entries of equal LAST_MODIFIED come in either order)
DirectoryLookup(dir, basename) ==
    LET matches == {e \in dir : Like(e.relative_path, <<"%">> \o basename \o <<"%">>)}
    IN  {e \in matches : \A o \in matches : o.last_modified <= e.last_modified}

\* the rows of the analysis query: WHERE d.RELATIVE_PATH = '<path>'
AnalysisRows(dir, path) == {e \in dir : e.relative_path = path}

\* what PARSE_JSON(AI_COMPLETE(...)) can yield for a row
Payload(t, keys, choices, cracked) ==
    [t |-> t, keys |-> keys, choices |-> choices, is_cracked |-> cracked]

DirectKeys == {"material", "is_cracked", "is_defective", "defect_severity", "defects", "repairs_required"}

Payloads ==
    { Payload("null", {}, "absent", FALSE),                          \* NULL
      Payload("dict", {}, "absent", FALSE),                          \* {}
      Payload("dict", {"choices", "usage"}, "one", FALSE),           \* envelope, one choice
      Payload("dict", {"choices"}, "empty", FALSE),                  \* envelope, no choice
      Payload("dict", {"choices"}, "null", FALSE),                   \* envelope, choices null
      Payload("dict", DirectKeys, "absent", TRUE),                   \* direct object
      Payload("dict", {"material", "is_cracked"}, "absent", FALSE),  \* direct object, fields missing
      Payload("str", {}, "absent", FALSE) }                          \* plain string

\* Python truthiness of result_json
Truthy(payload) == payload.t # "null" /\ ~(payload.t = "dict" /\ payload.keys = {})

----------------------------------------------------------------------------
(* snowflake_analyzer.py *)

Quote == "'"

\* a piece of query text: a template piece, or a value interpolated between
\* the quotes of a string literal (of: the value, text: what was written)
Fragment(src, of, text) == [src |-> src, of |-> of, text |-> text]

Template(text) == Fragment("template", text, text)

\* the warehouse reading the inside of a string literal: two quotes are one
\* quote character, a single quote ends the literal early
RECURSIVE LiteralOk(_)
LiteralOk(text) ==
    IF text = <<>> THEN TRUE
    ELSE IF Head(text) = Quote
         THEN Len(text) >= 2 /\ text[2] = Quote /\ LiteralOk(SubSeq(text, 3, Len(text)))
    ELSE LiteralOk(Tail(text))

RECURSIVE LiteralValue(_)
LiteralValue(text) ==
    IF text = <<>> THEN <<>>
    ELSE IF Head(text) = Quote
         THEN <<Quote>> \o LiteralValue(SubSeq(text, 3, Len(text)))
    ELSE <<Head(text)>> \o LiteralValue(Tail(text))

\* the statement parses: no interpolated value ends its literal early
WellFormed(q) == \A i \in 1..Len(q) : q[i].src # "template" => LiteralOk(q[i].text)

\* the query text of analyze_image, as its template pieces and the values
\* interpolated into them
AnalyzeImageQuery(stage_name, path, p, m) ==
    LET escaped_prompt == Replace(p, Quote, <<Quote, Quote>>)
        escaped_file_path == Replace(path, Quote, <<Quote, Quote>>)
        stage_ref == <<"@">> \o stage_name
    IN  << Template(<<"WITH input_pics AS ( SELECT TO_FILE(", Quote>>),
           Fragment("stage", stage_ref, stage_ref),
           Template(<<Quote, ", ", Quote>>),
           Fragment("path", path, escaped_file_path),
           Template(<<Quote, ") AS img, ... FROM DIRECTORY(", Quote>>),
           Fragment("stage", stage_ref, stage_ref),
           Template(<<Quote, ") d WHERE d.RELATIVE_PATH = ", Quote>>),
           Fragment("path", path, escaped_file_path),
           Template(<<Quote, " ), ai_analysis AS ( ... AI_COMPLETE( model => ", Quote>>),
           Fragment("model", <<m>>, <<m>>),
           Template(<<Quote, ", prompt => PROMPT(", Quote>>),
           Fragment("prompt", p, p),
           Template(<<Quote, ", img) ) ) AS result_json FROM input_pics ) SELECT ... FROM ai_analysis;">>) >>

\* the value the warehouse reads for the k-th interpolated fragment of kind src
ValueRead(q, src, k) ==
    LET at == SelectSeq(q, LAMBDA fr : fr.src = src)
    IN  LiteralValue(at[k].text)

Message(text) == [kind |-> "message", text |-> text]

Returned(success, value) == [success |-> success, raised |-> FALSE, value |-> value]

Raised(exc) == [success |-> FALSE, raised |-> TRUE, value |-> Message(exc)]

\* str(last_modified) if last_modified else None
StrOrNone(v) == IF v \in Int THEN <<"str", v>> ELSE "None"

\* what AI_COMPLETE's envelope holds in choices[0].messages
Unwrapped(payload) ==
    IF payload.t = "dict" /\ payload.choices = "one"
    THEN [payload EXCEPT !.keys = DirectKeys, !.choices = "absent"]
    ELSE payload

\* ResponseWithMetadata handing back the content of the envelope
ResponseWithMetadata_Unwrapped(row, payload) ==
    [kind |-> "response", ai_result |-> Unwrapped(payload),
     metadata |-> [file_path |-> row.relative_path, file_size_bytes |-> row.size,
                   last_modified |-> StrOrNone(row.last_modified)]]

ResponseWithMetadata(row, payload) ==
    [kind |-> "response", ai_result |-> payload,
     metadata |-> [file_path |-> row.relative_path, file_size_bytes |-> row.size,
                   last_modified |-> StrOrNone(row.last_modified)]]

\* what fetchone returns: None, or the row with its parsed result_json
NoRow == [present |-> FALSE]

FetchOne(rows, payload) ==
    IF rows = {} THEN NoRow
    ELSE [present |-> TRUE, row |-> CHOOSE r \in rows : TRUE, result_json |-> payload]

\* AnalyzeImageResult without the test of result_json
AnalyzeImageResult_NoEmptyCheck(rows, payload) ==
    IF rows # {}
    THEN Returned(TRUE, ResponseWithMetadata(CHOOSE r \in rows : TRUE, payload))
    ELSE Returned(FALSE, Message("No result returned from Snowflake"))

\* what analyze_image returns once fetchone has answered
AnalyzeImageResult(rows, payload) ==
    IF rows # {}
    THEN LET row == CHOOSE r \in rows : TRUE
         IN  IF ~Truthy(payload)
             THEN Returned(FALSE, Message("Snowflake returned empty result"))
             ELSE Returned(TRUE, ResponseWithMetadata(row, payload))
    ELSE Returned(FALSE, Message("No result returned from Snowflake"))

\* connect(): the connection after the call
ConnectOutcomes == {"open", "None"}

\* SnowflakeAIAnalyzer.analyze_image: relates the analyzer's connection
\* before the call to the connection after it, the query text built and the
\* value returned or the exception that leaves the call.  The finally block
\* reads cursor, which is unbound until connection.cursor() has returned.
analyze_image(conn, dir, stage_name, path, p, m) ==
    LET q == AnalyzeImageQuery(stage_name, path, p, m)
        Out(c, built, got, r) == [connection |-> c, query |-> built, fetched |-> got, result |-> r]
        rows == AnalysisRows(dir, ValueRead(q, "path", 2))
        AfterCursor(c) ==
            IF ~WellFormed(q)
            THEN { Out(c, q, <<>>, Returned(FALSE, Message("Snowflake SQL error"))) }
            ELSE { Out(c, q, <<>>, Returned(FALSE, Message("Snowflake SQL error"))),
                   Out(c, q, <<>>, Returned(FALSE, Message("Analysis error"))) }
                 \cup { Out(c, q, <<FetchOne(rows, payload)>>, AnalyzeImageResult(rows, payload)) :
                          payload \in Payloads }
        WithConnection(c) ==
            IF c = "closed"
            THEN { Out(c, <<>>, <<>>, Raised("UnboundLocalError")) }
            ELSE { Out(c, <<>>, <<>>, Raised("UnboundLocalError")) } \cup AfterCursor(c)
    IN  IF conn = "None"
        THEN { Out("None", <<>>, <<>>, Raised("UnboundLocalError")) } \cup WithConnection("open")
        ELSE WithConnection(conn)

\* SnowflakeAIAnalyzer.close
close(conn) == IF conn # "None" THEN "closed" ELSE conn

----------------------------------------------------------------------------
(* Inputs *)

jpg == <<".", "j", "p", "g">>
png == <<".", "p", "n", "g">>

Names ==
    { <<"a">> \o jpg,                          \* a.jpg
      <<"a", ".", "J", "P", "E", "G">>,        \* a.JPEG
      <<"a", " ", "b">> \o png,                \* "a b.png"
      <<"a", ".", "b", ".", "g", "i", "f">>,   \* a.b.gif
      <<"a", ".", "t", "x", "t">>,             \* a.txt
      <<"a">>,                                 \* no extension
      png,                                     \* ".png": a dot file, no extension
      <<"a", ".">>,                            \* "a.": an empty extension
      <<"a", ".", "P", "n", "G">>,             \* a.PnG
      <<"a", ".", "W", "E", "B", "P">>,        \* a.WEBP
      <<"a">> \o png \o <<".", "t", "x", "t">>, \* a.png.txt
      <<"a", "'", "b">> \o png }               \* a'b.png

Sizes ==
    { 2 * BytesPerMB, 3932160, 3932161, 5 * BytesPerMB, 10 * BytesPerMB, 10 * BytesPerMB + 1 }

Dims == { 1, MAX_RESOLUTION_CLAUDE, MAX_RESOLUTION_CLAUDE + 1 }

Models == CLAUDE_MODELS \cup {"openai-gpt-4.1", "llama4-maverick"}

DEFAULT_PROMPT == <<"Describe", " ", "{0}">>

Files ==
    [name : Names, size : Sizes, type : {"image/png"}, decodable : {TRUE},
     width : Dims, height : Dims, pos : {0, HeaderLen}]
    \cup
    [name : Names, size : Sizes, type : {"image/png"}, decodable : {FALSE},
     width : {0}, height : {0}, pos : {0, HeaderLen}]

NoStage == [exists |-> FALSE, files |-> {}, listed |-> {}]

NoResult == Returned(FALSE, Message("none"))

PipelineIdle ==
    /\ clock = 0
    /\ connection_string = "None"
    /\ temp_stage = NoStage
    /\ run_log = <<>>
    /\ blob_store = {}
    /\ file_path = <<>>
    /\ connection = "None"
    /\ catalog = {}
    /\ snowflake_file_path = <<>>
    /\ query = <<>>
    /\ result = NoResult
    /\ ui = <<>>
    /\ trace = <<>>
    /\ sessions = <<>>

----------------------------------------------------------------------------
(* app.py: main, from the click on "Analyze Image" to the end of the request *)

Event(step, outcome, detail) == [step |-> step, outcome |-> outcome, detail |-> detail]

UI(kind, what) == [kind |-> kind, what |-> what]

StageMissingPhrase == <<"does not exist or not authorized">>

\* str(e) of the errors ALTER STAGE ... REFRESH can raise
RefreshErrors ==
    { <<"SQL compilation error: Stage 'INPUT_STAGE' ">> \o StageMissingPhrase \o <<".">>,
      <<"Network is unreachable">> }

\* IsStageMissing comparing the whole message with the phrase
IsStageMissing_WholeMessage(msg) == msg = StageMissingPhrase

IsStageMissing(msg) == Contains(msg, StageMissingPhrase)

\* AfterValidate without the st.stop()
AfterValidate_NoStop(valid) == "upload"

\* lines 112-114: st.stop() unless the verdict is valid
AfterValidate(valid) == IF valid THEN "upload" ELSE "stopped"

\* AfterRefreshError halting on every refresh error
AfterRefreshError_AlwaysHalt(msg) == "stopped"

\* lines 152-169: the stage-missing error halts, any other is a warning
AfterRefreshError(msg) == IF IsStageMissing(msg) THEN "stopped" ELSE "resolve"

\* FallbackPath falling back to the bare file name
FallbackPath_Basename(path) == Basename(path)

\* lines 187-188 and 191-192: the path used when the lookup gave no row
FallbackPath(path) == path

\* lines 93-101: the page opens the image to display it before the button is drawn
Render ==
    /\ pc = "render"
    /\ IF uploaded_file.decodable
       THEN /\ pc' = "validate"
            /\ \E p \in {HeaderLen, uploaded_file.size} :
                   uploaded_file' = [uploaded_file EXCEPT !.pos = p]
       ELSE /\ pc' = "crashed"
            /\ UNCHANGED uploaded_file
    /\ UNCHANGED <<model, prompt, is_valid, error_msg>>
    /\ UNCHANGED pipeline_vars

\* lines 108-114
Validate ==
    /\ pc = "validate"
    /\ LET r == validate_image(uploaded_file, model)
       IN  /\ is_valid' = r.is_valid
           /\ error_msg' = r.message
           /\ pc' = AfterValidate(r.is_valid)
           /\ ui' = IF r.is_valid THEN ui ELSE Append(ui, UI("error", "validation"))
           /\ trace' = Append(trace, Event("validate", IF r.is_valid THEN "ok" ELSE "failed", <<>>))
    /\ \E p \in PosAfterValidate(uploaded_file, model) :
           uploaded_file' = [uploaded_file EXCEPT !.pos = p]
    /\ UNCHANGED <<model, prompt, clock, connection_string, temp_stage, run_log, blob_store,
                   file_path, connection,
                   catalog, snowflake_file_path, query, result, sessions>>

\* lines 120-133
Upload ==
    /\ pc = "upload"
    /\ \E r \in upload_image(uploaded_file, connection_string, blob_store, clock) :
           /\ blob_store' = r.store
           /\ file_path' = r.relative_path
           /\ uploaded_file' = IF r.success THEN [uploaded_file EXCEPT !.pos = uploaded_file.size]
                                ELSE uploaded_file
           /\ trace' = Append(trace, Event("upload",
                            IF r.success THEN "ok" ELSE IF r.called THEN "failed" ELSE "not_configured",
                            r.relative_path))
           /\ IF r.success
              THEN /\ ui' = ui \o <<UI("success", "uploaded"), UI("info", "azure_path")>>
                   /\ pc' = "connect"
              ELSE /\ ui' = Append(ui, UI("error", "upload"))
                   /\ pc' = "stopped"
    /\ UNCHANGED <<model, prompt, is_valid, error_msg, clock, connection_string, temp_stage,
                   run_log, connection,
                   catalog, snowflake_file_path, query, result, sessions>>

\* lines 139-143
Connect ==
    /\ pc = "connect"
    /\ \E c \in ConnectOutcomes :
           /\ connection' = c
           /\ trace' = Append(trace, Event("connect", IF c = "open" THEN "ok" ELSE "failed", <<>>))
           /\ IF c = "open"
              THEN pc' = "refresh" /\ ui' = ui
              ELSE pc' = "stopped" /\ ui' = Append(ui, UI("error", "connection"))
    /\ UNCHANGED <<uploaded_file, model, prompt, is_valid, error_msg, clock, connection_string,
                   temp_stage, run_log,
                   blob_store, file_path, catalog, snowflake_file_path, query, result, sessions>>

\* lines 146-151: ALTER STAGE ... REFRESH returns
RefreshOk ==
    /\ pc = "refresh"
    /\ catalog' = DirectoryOf(blob_store)
    /\ ui' = Append(ui, UI("success", "stage_refreshed"))
    /\ trace' = Append(trace, Event("refresh", "ok", <<>>))
    /\ pc' = "resolve"
    /\ UNCHANGED <<uploaded_file, model, prompt, is_valid, error_msg, clock, connection_string,
                   temp_stage, run_log,
                   blob_store, file_path, connection, snowflake_file_path, query, result, sessions>>

\* lines 152-169: obtaining the cursor or the statement raises
RefreshError ==
    /\ pc = "refresh"
    /\ \E msg \in RefreshErrors :
           /\ pc' = AfterRefreshError(msg)
           /\ IF IsStageMissing(msg)
              THEN /\ ui' = ui \o <<UI("error", "stage_missing"), UI("error", "run_setup"),
                                    UI("code", "setup_sql")>>
                   /\ connection' = close(connection)
                   /\ trace' = Append(trace, Event("refresh", "raised", msg))
              ELSE /\ ui' = Append(ui, UI("warning", "stage_refresh"))
                   /\ connection' = connection
                   /\ trace' = Append(trace, Event("refresh", "raised", msg))
    /\ UNCHANGED <<uploaded_file, model, prompt, is_valid, error_msg, clock, connection_string,
                   temp_stage, run_log,
                   blob_store, file_path, catalog, snowflake_file_path, query, result, sessions>>

\* lines 172-190: the directory query answers
ResolveAnswered ==
    /\ pc = "resolve"
    /\ LET rows == DirectoryLookup(catalog, Basename(file_path))
       IN  IF rows # {}
           THEN \E e \in rows :
                   /\ snowflake_file_path' = e.relative_path
                   /\ ui' = Append(ui, UI("info", "snowflake_path"))
                   /\ trace' = Append(trace, Event("directory", "found", e.relative_path))
           ELSE /\ snowflake_file_path' = FallbackPath(file_path)
                /\ ui' = Append(ui, UI("warning", "not_in_directory"))
                /\ trace' = Append(trace, Event("directory", "none", <<>>))
    /\ pc' = "analyze"
    /\ UNCHANGED <<uploaded_file, model, prompt, is_valid, error_msg, clock, connection_string,
                   temp_stage, run_log,
                   blob_store, file_path, connection, catalog, query, result, sessions>>

\* lines 191-193: obtaining the cursor or the directory query raises
ResolveError ==
    /\ pc = "resolve"
    /\ snowflake_file_path' = FallbackPath(file_path)
    /\ ui' = Append(ui, UI("warning", "directory_query"))
    /\ trace' = Append(trace, Event("directory", "error", <<>>))
    /\ pc' = "analyze"
    /\ UNCHANGED <<uploaded_file, model, prompt, is_valid, error_msg, clock, connection_string,
                   temp_stage, run_log,
                   blob_store, file_path, connection, catalog, query, result, sessions>>

\* lines 195-205
Analyze ==
    /\ pc = "analyze"
    /\ \E o \in analyze_image(connection, catalog, SNOWFLAKE_STAGE_NAME,
                                 snowflake_file_path, prompt, model) :
           /\ query' = o.query
           /\ result' = o.result
           /\ trace' = Append(trace, Event("analyze",
                            IF o.result.raised THEN "raised"
                            ELSE IF o.result.success THEN "ok" ELSE "failed",
                            snowflake_file_path))
           /\ IF o.result.raised
              THEN /\ pc' = "crashed"
                   /\ connection' = o.connection
                   /\ ui' = ui
              ELSE IF ~o.result.success
              THEN /\ pc' = "stopped"
                   /\ connection' = close(o.connection)
                   /\ ui' = Append(ui, UI("error", "analysis"))
              ELSE /\ pc' = "present"
                   /\ connection' = o.connection
                   /\ ui' = ui
    /\ UNCHANGED <<uploaded_file, model, prompt, is_valid, error_msg, clock, connection_string,
                   temp_stage, run_log,
                   blob_store, file_path, catalog, snowflake_file_path, sessions>>

\* lines 215-263: what the try block shows, or "raised" when it raises
Presentation(value) ==
    LET ai_result == value.ai_result
        shown == <<UI("metric", "metadata"), UI("json", "ai_result")>>
    IN  IF ai_result.t = "dict" /\ "choices" \in ai_result.keys
        THEN IF ai_result.choices = "null"
             THEN [raised |-> TRUE, shown |-> shown]
             ELSE IF ai_result.choices = "one"
                  THEN [raised |-> FALSE,
                        shown |-> shown \o <<UI("markdown", "message_content"),
                                             UI("table", "summary")>>]
                  ELSE [raised |-> FALSE, shown |-> shown]
        ELSE [raised |-> FALSE, shown |-> shown]

\* lines 207-265
Present ==
    /\ pc = "present"
    /\ LET p == Presentation(result.value)
       IN  ui' = ui \o p.shown \o
                 (IF p.raised THEN <<UI("warning", "parse"), UI("text", "raw_result")>> ELSE <<>>)
    /\ trace' = Append(trace, Event("present", "ok", <<>>))
    /\ connection' = close(connection)
    /\ pc' = "done"
    /\ UNCHANGED <<uploaded_file, model, prompt, is_valid, error_msg, clock, connection_string,
                   temp_stage, run_log,
                   blob_store, file_path, catalog, snowflake_file_path, query, result, sessions>>

PipelineFiles ==
    [name : {<<"a">> \o jpg, <<"a", " ", "b">> \o png, <<"a", ".", "J", "P", "E", "G">>,
             <<"a", "'", "b">> \o png},
     size : {2 * BytesPerMB, 5 * BytesPerMB}, type : {"image/png"}, decodable : {TRUE},
     width : {1, MAX_RESOLUTION_CLAUDE + 1}, height : {1}, pos : {0}]
    \cup
    [name : {<<"a">> \o jpg}, size : {2 * BytesPerMB}, type : {"image/png"},
     decodable : {FALSE}, width : {0}, height : {0}, pos : {0}]

PipelineModels == {"claude-3.5-sonnet", "openai-gpt-4.1"}

Prompts == {DEFAULT_PROMPT, <<"What", Quote, "s", " ", "{0}">>}

\* objects other writers left in the container
StageObjects ==
    { [name |-> <<"archive", "/">> \o Timestamp(0) \o <<"_", "a">> \o jpg,
       size |-> 7, last_modified |-> 0, content_type |-> "image/jpeg"],
      [name |-> <<"images", "/", "old">> \o png,
       size |-> 9, last_modified |-> 0, content_type |-> "image/png"] }

MaxClock == 1

Init ==
    /\ pc = "render"
    /\ uploaded_file \in PipelineFiles
    /\ model \in PipelineModels
    /\ prompt \in Prompts
    /\ is_valid = FALSE
    /\ error_msg = NoMessage
    /\ clock \in 0..MaxClock
    /\ connection_string \in {"None", "set"}
    /\ temp_stage = NoStage
    /\ run_log = <<>>
    /\ blob_store \in SUBSET StageObjects
    /\ catalog = DirectoryOf(blob_store)
    /\ file_path = <<>>
    /\ connection = "None"
    /\ snowflake_file_path = <<>>
    /\ query = <<>>
    /\ result = NoResult
    /\ ui = <<>>
    /\ trace = <<>>
    /\ sessions = <<>>

Next ==
    \/ Render
    \/ Validate
    \/ Upload
    \/ Connect
    \/ RefreshOk
    \/ RefreshError
    \/ ResolveAnswered
    \/ ResolveError
    \/ Analyze
    \/ Present

Spec == Init /\ [][Next]_vars

----------------------------------------------------------------------------
(* streamlit_app_select_only.py: analyze_with_snowflake *)

AnalyzeWithSnowflakeQuery(stage_name, path, p, m) ==
    LET escaped_prompt == Replace(p, Quote, <<Quote, Quote>>)
        escaped_file_path == Replace(path, Quote, <<Quote, Quote>>)
        stage_ref == <<"@">> \o stage_name
    IN  << Template(<<"WITH input_pics AS ( SELECT TO_FILE(", Quote>>),
           Fragment("stage", stage_ref, stage_ref),
           Template(<<Quote, ", ", Quote>>),
           Fragment("path", path, escaped_file_path),
           Template(<<Quote, ") AS img, ... FROM DIRECTORY(", Quote>>),
           Fragment("stage", stage_ref, stage_ref),
           Template(<<Quote, ") d WHERE d.RELATIVE_PATH = ", Quote>>),
           Fragment("path", path, escaped_file_path),
           Template(<<Quote, " ), ai_analysis AS ( ... AI_COMPLETE( model => ", Quote>>),
           Fragment("model", <<m>>, <<m>>),
           Template(<<Quote, ", prompt => PROMPT(", Quote>>),
           Fragment("prompt", p, escaped_prompt),
           Template(<<Quote, ", img) ) ) AS result_json FROM input_pics ) SELECT ... FROM ai_analysis;">>) >>

\* the outcomes of one call: the query text built and the pair returned
analyze_with_snowflake(dir, stage_name, path, p, m) ==
    LET q == AnalyzeWithSnowflakeQuery(stage_name, path, p, m)
        Out(r) == [query |-> q, result |-> r]
        rows == AnalysisRows(dir, ValueRead(q, "path", 2))
    IN  { Out(Returned(FALSE, Message("Analysis error"))) }
        \cup IF ~WellFormed(q) THEN {}
             ELSE IF rows = {}
                  THEN { Out(Returned(FALSE, Message("No result returned from Snowflake"))) }
                  ELSE { Out(Returned(TRUE, ResponseWithMetadata(CHOOSE r \in rows : TRUE, payload))) :
                           payload \in Payloads }

----------------------------------------------------------------------------
(* streamlit_app.py: analyze_with_uploaded_file *)

TEMP_STAGE_NAME == <<"temp_upload_stage">>

\* f"temp_{timestamp}_{filename}"
TempFilename(t, filename) == <<"temp", "_">> \o Timestamp(t) \o <<"_">> \o filename

\* the INSERT ... SELECT text: image name and prompt are written escaped, the
\* staged file's path is written as it is
InsertQuery(stage_file_path, filename, p, m) ==
    LET escaped_prompt == Replace(p, Quote, <<Quote, Quote>>)
        escaped_filename == Replace(filename, Quote, <<Quote, Quote>>)
        stage_ref == <<"@">> \o TEMP_STAGE_NAME
    IN  << Template(<<"INSERT INTO AI_IMAGE_RUN_LOG ( ... ) WITH input_pics AS ( SELECT ", Quote>>),
           Fragment("stage", stage_ref, stage_ref),
           Template(<<Quote, " AS stage_name, ", Quote>>),
           Fragment("path", filename, escaped_filename),
           Template(<<Quote, " AS image_name, ", Quote>>),
           Fragment("model", <<m>>, <<m>>),
           Template(<<Quote, " AS model_name, ", Quote>>),
           Fragment("prompt", p, escaped_prompt),
           Template(<<Quote, " AS ai_complete_prompt_tmpl, ... TO_FILE(", Quote>>),
           Fragment("stage", stage_ref, stage_ref),
           Template(<<Quote, ", ", Quote>>),
           Fragment("path", stage_file_path, stage_file_path),
           Template(<<Quote, ") AS img FROM DIRECTORY(", Quote>>),
           Fragment("stage", stage_ref, stage_ref),
           Template(<<Quote, ") d WHERE d.RELATIVE_PATH = ", Quote>>),
           Fragment("path", stage_file_path, stage_file_path),
           Template(<<Quote, " LIMIT 1 ), ... AI_COMPLETE( model => ", Quote>>),
           Fragment("model", <<m>>, <<m>>),
           Template(<<Quote, ", prompt => PROMPT(ai_complete_prompt_tmpl, img), ... ) ... FROM assembled;">>) >>

LogRow(id, t, image_name, relpath, payload) ==
    [run_id |-> id, run_ts |-> t, image_name |-> image_name,
     container_relpath |-> relpath, result_json |-> payload]

\* SELECT * FROM AI_IMAGE_RUN_LOG ORDER BY run_ts DESC LIMIT 1
LatestRows(log) ==
    {i \in 1..Len(log) : \A j \in 1..Len(log) : log[j].run_ts <= log[i].run_ts}

LogResponse(row) ==
    [kind |-> "response", ai_result |-> row.result_json,
     metadata |-> [run_id |-> row.run_id, file_path |-> row.container_relpath,
                   run_ts |-> row.run_ts]]

\* the outcomes of one call: the temporary stage and the run log after it, the
\* INSERT text built and the pair returned
analyze_with_uploaded_file(stage, log, t, filename, p, m) ==
    LET temp_filename == TempFilename(t, filename)
        q == InsertQuery(temp_filename, filename, p, m)
        fresh == [exists |-> TRUE, files |-> {}, listed |-> {}]
        put == [exists |-> TRUE, files |-> {temp_filename}, listed |-> {}]
        staged == [exists |-> TRUE, files |-> {temp_filename}, listed |-> {temp_filename}]
        Out(st, lg, built, r) == [temp_stage |-> st, run_log |-> lg, query |-> built, result |-> r]
        failure == Returned(FALSE, Message("Analysis error"))
        Fetched(st, lg) ==
            IF lg = <<>>
            THEN { Out(st, lg, q, Returned(FALSE, Message("No result returned from Snowflake"))) }
            ELSE { Out(st, lg, q, Returned(TRUE, LogResponse(lg[i]))) : i \in LatestRows(lg) }
        Inserted(st) ==
            IF ValueRead(q, "path", 3) \in st.listed
            THEN UNION { Fetched(st, Append(log, LogRow(Len(log) + 1, t, ValueRead(q, "path", 1),
                                                        ValueRead(q, "path", 3), payload))) :
                           payload \in Payloads }
            ELSE Fetched(st, log)
    IN  \* writing the local file, or CREATE STAGE after a failed DROP, raises
        { Out(stage, log, <<>>, failure) }
        \* PUT raises
        \cup { Out(fresh, log, <<>>, failure) }
        \* REFRESH, the INSERT or the fetch raises
        \cup { Out(put, log, <<>>, failure), Out(staged, log, q, failure) }
        \cup (IF WellFormed(q) THEN Inserted(staged) ELSE {})

----------------------------------------------------------------------------
(* The three dispatchers on their own: every prompt and path *)

Alphabet == {"a", Quote}

MaxLen == 2

Texts == UNION { [1..n -> Alphabet] : n \in 1..MaxLen }

OldLogRow == LogRow(1, 0, <<"old">> \o png, <<"temp", "_">> \o Timestamp(0) \o <<"_", "old">> \o png,
                    Payload("dict", DirectKeys, "absent", FALSE))

InitDispatch ==
    /\ pc = "dispatch"
    /\ uploaded_file \in [name : Texts, size : {2 * BytesPerMB}, type : {"image/png"},
                           decodable : {TRUE}, width : {1}, height : {1}, pos : {0}]
    /\ model = "openai-gpt-4.1"
    /\ prompt \in Texts
    /\ is_valid = TRUE
    /\ error_msg = NoMessage
    /\ clock = 1
    /\ connection_string = "None"
    /\ temp_stage = NoStage
    /\ run_log \in {<<>>, <<OldLogRow>>}
    /\ blob_store = {}
    /\ file_path = uploaded_file.name
    /\ connection \in {"None", "open"}
    /\ catalog \in SUBSET { [relative_path |-> file_path, size |-> uploaded_file.size,
                              last_modified |-> 1],
                             [relative_path |-> <<"images", "/", "old">> \o png, size |-> 9,
                              last_modified |-> 0] }
    /\ snowflake_file_path = file_path
    /\ query = <<>>
    /\ result = NoResult
    /\ ui = <<>>
    /\ trace = <<>>
    /\ sessions = <<>>

DispatchAnalyzeImage ==
    /\ pc = "dispatch"
    /\ \E o \in analyze_image(connection, catalog, SNOWFLAKE_STAGE_NAME, file_path, prompt, model) :
           /\ connection' = o.connection
           /\ query' = o.query
           /\ result' = o.result
           /\ trace' = trace \o [i \in 1..Len(o.fetched) |->
                                    Event("fetchone", "returned", o.fetched[i])]
    /\ pc' = "analyze_image"
    /\ UNCHANGED <<uploaded_file, model, prompt, is_valid, error_msg, clock, connection_string,
                   temp_stage, run_log, blob_store, file_path, catalog, snowflake_file_path,
                   ui, sessions>>

DispatchAnalyzeWithSnowflake ==
    /\ pc = "dispatch"
    /\ connection = "open"
    /\ \E o \in analyze_with_snowflake(catalog, SNOWFLAKE_STAGE_NAME, file_path, prompt, model) :
           /\ query' = o.query
           /\ result' = o.result
    /\ pc' = "analyze_with_snowflake"
    /\ UNCHANGED <<uploaded_file, model, prompt, is_valid, error_msg, clock, connection_string,
                   temp_stage, run_log, blob_store, file_path, connection, catalog,
                   snowflake_file_path, ui, trace, sessions>>

DispatchAnalyzeWithUploadedFile ==
    /\ pc = "dispatch"
    /\ connection = "open"
    /\ \E o \in analyze_with_uploaded_file(temp_stage, run_log, clock, uploaded_file.name,
                                              prompt, model) :
           /\ temp_stage' = o.temp_stage
           /\ run_log' = o.run_log
           /\ query' = o.query
           /\ result' = o.result
    /\ pc' = "analyze_with_uploaded_file"
    /\ UNCHANGED <<uploaded_file, model, prompt, is_valid, error_msg, clock, connection_string,
                   blob_store, file_path, connection, catalog, snowflake_file_path, ui, trace, sessions>>

NextDispatch ==
    \/ DispatchAnalyzeImage
    \/ DispatchAnalyzeWithSnowflake
    \/ DispatchAnalyzeWithUploadedFile

SpecDispatch == InitDispatch /\ [][NextDispatch]_vars

\* C1: in the query text every dispatcher builds, each interpolated prompt and
\* path is written with its single quotes doubled: the written text holds no
\* unpaired quote and reads back as the value.
C1_QuotesDoubled ==
    \A i \in 1..Len(query) :
        query[i].src \in {"prompt", "path"} =>
            /\ LiteralOk(query[i].text)
            /\ LiteralValue(query[i].text) = query[i].of
            /\ Len(query[i].text) = Len(query[i].of)
                  + Cardinality({k \in 1..Len(query[i].of) : query[i].of[k] = Quote})

----------------------------------------------------------------------------
(* The validator on its own: every submission and model *)

InitValidate ==
    /\ pc = "validate"
    /\ uploaded_file \in Files
    /\ model \in Models
    /\ prompt = DEFAULT_PROMPT
    /\ is_valid = FALSE
    /\ error_msg = NoMessage
    /\ PipelineIdle

ValidateImage ==
    /\ pc = "validate"
    /\ LET r == validate_image(uploaded_file, model)
       IN  /\ is_valid' = r.is_valid
           /\ error_msg' = r.message
    /\ \E p \in PosAfterValidate(uploaded_file, model) :
           uploaded_file' = [uploaded_file EXCEPT !.pos = p]
    /\ trace' = <<Event("validate_image", "returned", uploaded_file.pos)>>
    /\ pc' = "validated"
    /\ UNCHANGED <<model, prompt, clock, connection_string, temp_stage, run_log, blob_store,
                   file_path, connection, catalog, snowflake_file_path, query, result, ui,
                   sessions>>

\* streamlit_app.py: validate_image called on the submission
StreamlitValidateImage ==
    /\ pc = "validate"
    /\ LET r == streamlit_validate_image(uploaded_file, model)
       IN  /\ is_valid' = r.is_valid
           /\ error_msg' = r.message
    /\ \E p \in StreamlitPosAfterValidate(uploaded_file, model) :
           uploaded_file' = [uploaded_file EXCEPT !.pos = p]
    /\ trace' = <<Event("validate_image", "returned", uploaded_file.pos)>>
    /\ pc' = "validated_streamlit"
    /\ UNCHANGED <<model, prompt, clock, connection_string, temp_stage, run_log, blob_store,
                   file_path, connection, catalog, snowflake_file_path, query, result, ui,
                   sessions>>

NextValidate ==
    \/ ValidateImage
    \/ StreamlitValidateImage

SpecValidate == InitValidate /\ [][NextValidate]_vars

----------------------------------------------------------------------------
(* Properties of the app.py pipeline *)

Steps == 1..Len(trace)

Happened(step, outcome) ==
    \E j \in Steps : trace[j].step = step /\ trace[j].outcome = outcome

HappenedBefore(i, step, outcome) ==
    \E j \in 1..(i - 1) : trace[j].step = step /\ trace[j].outcome = outcome

Ended == pc \in {"stopped", "done", "crashed"}

Shown(kind, what) == \E k \in 1..Len(ui) : ui[k] = UI(kind, what)

\* C2: an upload is attempted only after validation returned valid; connect,
\* refresh and path resolution run only after the upload succeeded; the
\* analysis is dispatched only after the connection succeeded; when validation
\* fails (a 5 MB file with a stricter-class model does) no upload and no query
\* is attempted in the request.
C2_StepsGated ==
    /\ \A i \in Steps :
          /\ trace[i].step = "upload" => HappenedBefore(i, "validate", "ok")
          /\ trace[i].step \in {"connect", "refresh", "directory"}
                => HappenedBefore(i, "upload", "ok")
          /\ trace[i].step \in {"refresh", "directory", "analyze"}
                => HappenedBefore(i, "connect", "ok")
    /\ Happened("validate", "failed") =>
          /\ \A i \in Steps : trace[i].step \notin {"upload", "analyze"}
          /\ query = <<>>
          /\ file_path = <<>>
    /\ ( /\ uploaded_file.size = 5 * 1024 * 1024
         /\ model \in CLAUDE_MODELS
         /\ pc \notin {"render", "validate"} )
          => ( /\ Happened("validate", "failed")
               /\ \A i \in Steps : trace[i].step \notin {"upload", "analyze"} )

\* the request of a 5 MB file with a stricter-class model ended at validation
C2_Witness ==
    /\ pc = "stopped"
    /\ uploaded_file.size = 5 * 1024 * 1024
    /\ model \in CLAUDE_MODELS
    /\ Happened("validate", "failed")
    /\ Len(trace) = 1

\* C3: whenever the dispatcher is invoked for a path, an object of that path
\* has been uploaded and the directory lookup returned an entry for that path.
C3_DispatchedPathInCatalog ==
    \A i \in Steps :
        trace[i].step = "analyze" =>
            /\ \E b \in blob_store : b.name = trace[i].detail
            /\ HappenedBefore(i, "directory", "found")
            /\ \E e \in catalog : e.relative_path = trace[i].detail

\* C4: no request on which connect() succeeded ends with the connection open.
C4_ConnectionClosedAtEnd ==
    (Ended /\ Happened("connect", "ok")) => connection = "closed"

StageMissingAt(i) ==
    /\ trace[i].step = "refresh"
    /\ trace[i].outcome = "raised"
    /\ Contains(trace[i].detail, <<"does not exist or not authorized">>)

OtherRefreshErrorAt(i) ==
    /\ trace[i].step = "refresh"
    /\ trace[i].outcome = "raised"
    /\ ~Contains(trace[i].detail, <<"does not exist or not authorized">>)

\* C5: when the refresh fails with "does not exist or not authorized", the
\* setup instructions are shown, the connection is closed and the request
\* halts: no directory lookup and no analysis query follows.
C5_StageMissingHalts ==
    \A i \in Steps :
        StageMissingAt(i) =>
            /\ i = Len(trace)
            /\ pc = "stopped"
            /\ connection = "closed"
            /\ Shown("error", "run_setup") /\ Shown("code", "setup_sql")
            /\ query = <<>>
            /\ \A j \in Steps : trace[j].step \notin {"directory", "analyze"}

\* a request halted on the stage-missing error
C5_Witness ==
    /\ pc = "stopped"
    /\ trace # <<>>
    /\ StageMissingAt(Len(trace))

\* the step that follows step i, when the request went on
FollowedBy(i, step, at) ==
    IF i = Len(trace) THEN pc = at ELSE trace[i + 1].step = step

FailedAt(i) == trace[i].outcome \in {"failed", "raised", "error", "not_configured"}

RefreshWarningProceeds ==
    \A i \in Steps :
        OtherRefreshErrorAt(i) =>
            /\ Shown("warning", "stage_refresh")
            /\ FollowedBy(i, "directory", "resolve")
            /\ (i < Len(trace)) => FollowedBy(i + 1, "analyze", "analyze")

C7_ResolvedPath ==
    \A i \in Steps :
        trace[i].step = "directory" =>
            /\ trace[i].outcome = "none" =>
                  /\ snowflake_file_path = file_path
                  /\ file_path = BlobName(clock, uploaded_file.name)
                  /\ Shown("warning", "not_in_directory")
            /\ trace[i].outcome = "found" =>
                  /\ snowflake_file_path = trace[i].detail
                  /\ \E e \in catalog : e.relative_path = snowflake_file_path
                  /\ Shown("info", "snowflake_path")
            /\ FollowedBy(i, "analyze", "analyze")
            /\ i < Len(trace) => trace[i + 1].detail = snowflake_file_path

\* the analysis was dispatched with the uploader's key after an empty lookup
C7_Witness ==
    \E i \in Steps :
        /\ i < Len(trace)
        /\ trace[i].step = "directory"
        /\ trace[i].outcome = "none"
        /\ trace[i + 1].step = "analyze"
        /\ trace[i + 1].detail = file_path

----------------------------------------------------------------------------
(* Properties of analyze_image *)

AnalyzeImageReturned == pc = "analyze_image" /\ ~result.raised

\* fetchone answered during the call
FetchAnswered == trace # <<>> /\ trace[Len(trace)].step = "fetchone"

LastFetch == trace[Len(trace)].detail

\* a structured payload that is null or has no content
IsEmptyPayload(payload) == payload.t = "null" \/ (payload.t = "dict" /\ payload.keys = {})

\* C13: analyze_image tells its outcomes apart: zero rows give failure with the
\* "no result" message, a row whose payload is empty or null gives failure
\* with the distinct "empty result" message, and success is returned only for
\* a row with a non-empty payload.
C13_OutcomesDistinguished ==
    /\ (AnalyzeImageReturned /\ FetchAnswered) =>
          /\ ~LastFetch.present =>
                 result = Returned(FALSE, Message("No result returned from Snowflake"))
          /\ (LastFetch.present /\ IsEmptyPayload(LastFetch.result_json)) =>
                 result = Returned(FALSE, Message("Snowflake returned empty result"))
          /\ (LastFetch.present /\ ~IsEmptyPayload(LastFetch.result_json)) => result.success
    /\ (AnalyzeImageReturned /\ result.success) =>
          /\ FetchAnswered
          /\ LastFetch.present
          /\ ~IsEmptyPayload(LastFetch.result_json)

\* a row came back with a null payload and the call reported the empty result
C13_Witness ==
    /\ AnalyzeImageReturned
    /\ FetchAnswered
    /\ LastFetch.present
    /\ LastFetch.result_json.t = "null"
    /\ result.value = Message("Snowflake returned empty result")

\* C14: on success analyze_image hands back the payload as it was fetched:
\* ai_result is the result_json of the fetched row, whatever its shape, and the
\* metadata are the path, size and last-modified of that same row.
C14_PayloadUnmodified ==
    (AnalyzeImageReturned /\ result.success) =>
        /\ FetchAnswered
        /\ LastFetch.present
        /\ result.value.ai_result = LastFetch.result_json
        /\ result.value.metadata.file_path = LastFetch.row.relative_path
        /\ result.value.metadata.file_size_bytes = LastFetch.row.size
        /\ result.value.metadata.last_modified = <<"str", LastFetch.row.last_modified>>
        /\ LastFetch.row \in catalog

\* a choices envelope was fetched next to another row of the stage and came
\* back inside a successful result
C14_Witness ==
    /\ AnalyzeImageReturned
    /\ result.success
    /\ Cardinality(catalog) = 2
    /\ result.value.ai_result.t = "dict"
    /\ result.value.ai_result.choices = "one"

\* C23: analyze_image returns a (success, result) pair on every path and lets
\* no exception escape: when connect() fails it returns the connection error,
\* and when obtaining the cursor or executing the query raises it returns
\* (False, message) after its cleanup block.
C23_NeverRaises ==
    pc = "analyze_image" =>
        /\ ~result.raised
        /\ result.value.kind \in {"message", "response"}
        /\ result.success <=> result.value.kind = "response"

----------------------------------------------------------------------------
(* Properties of the validator *)

\* the entries of the returned message, one per line
MessageEntries == SelectSeq(error_msg, LAMBDA e : e.check # "newline")

HasEntry(kinds) == \E i \in 1..Len(MessageEntries) : MessageEntries[i].check \in kinds

IsStricter == model \in CLAUDE_MODELS

FormatFails == Lower(splitext(uploaded_file.name)[2]) \notin SUPPORTED_FORMATS

SizeFails == uploaded_file.size > (IF IsStricter THEN 3932160 ELSE 10485760)

ResolutionFails ==
    IsStricter /\ ( \/ ~uploaded_file.decodable
                    \/ uploaded_file.width > 8000
                    \/ uploaded_file.height > 8000 )

FailingChecks ==
    (IF FormatFails THEN {"format"} ELSE {})
    \cup (IF SizeFails THEN {"size"} ELSE {})
    \cup (IF ResolutionFails THEN {"resolution"} ELSE {})

\* C8: validate_image collects every violation: the message has one entry per
\* failing check among format, size and resolution/decoding (k failing checks
\* give exactly k entries) and the verdict is valid iff no check fails.
C8_AllViolationsCollected ==
    pc = "validated" =>
        /\ Len(MessageEntries) = Cardinality(FailingChecks)
        /\ FormatFails <=> HasEntry({"format"})
        /\ SizeFails <=> HasEntry({"size"})
        /\ ResolutionFails <=> HasEntry({"resolution", "decode"})
        /\ is_valid <=> FailingChecks = {}

\* a submission failing all three checks was validated
C8_Witness ==
    /\ pc = "validated"
    /\ Cardinality(FailingChecks) = 3
    /\ Len(MessageEntries) = 3

\* C9: the size check rejects iff the size in bytes is strictly above the
\* threshold, 3.75 MB (3932160 bytes) for a stricter-class model and 10 MB
\* (10485760 bytes) otherwise; exactly the threshold is accepted; 5 MB is
\* accepted for a general-class model and rejected for a stricter-class one.
C9_SizeThreshold ==
    pc = "validated" =>
        /\ HasEntry({"size"}) <=> SizeFails
        /\ HasEntry({"size"}) => ~is_valid
        /\ (IsStricter /\ uploaded_file.size = 3932160) => ~HasEntry({"size"})
        /\ (~IsStricter /\ uploaded_file.size = 10485760) => ~HasEntry({"size"})
        /\ uploaded_file.size = 5 * 1024 * 1024 => (HasEntry({"size"}) <=> IsStricter)

\* a file of exactly 3.75 MB passed the size check of a stricter-class model
C9_Witness ==
    /\ pc = "validated"
    /\ IsStricter
    /\ uploaded_file.size * 100 = 375 * 1024 * 1024
    /\ ~HasEntry({"size"})

\* C10: for a stricter-class model and a decodable image, validation rejects
\* when width > 8000 or height > 8000 (either axis alone), and raises no
\* resolution violation when both are at most 8000, 8000 itself included.
C10_ResolutionBound ==
    (pc = "validated" /\ IsStricter /\ uploaded_file.decodable) =>
        /\ (uploaded_file.width > 8000 \/ uploaded_file.height > 8000)
               => (~is_valid /\ HasEntry({"resolution"}))
        /\ (uploaded_file.width <= 8000 /\ uploaded_file.height <= 8000)
               => ~HasEntry({"resolution", "decode"})

\* an image exceeding the bound on one axis only was rejected
C10_Witness ==
    /\ pc = "validated"
    /\ IsStricter
    /\ uploaded_file.width = 8001
    /\ uploaded_file.height = 8000
    /\ HasEntry({"resolution"})

\* the upper-case spelling of each letter of the supported extensions
UpperOf ==
    [a |-> "A", b |-> "B", e |-> "E", f |-> "F", g |-> "G", i |-> "I", j |-> "J", n |-> "N",
     p |-> "P", w |-> "W"]

\* the submission's extension: what follows the last dot of the name, when
\* something other than a dot comes before that dot
NameExtension ==
    LET name == uploaded_file.name
        dots == {i \in 1..Len(name) : name[i] = "."}
        last == CHOOSE i \in dots : \A j \in dots : j <= i
    IN  IF dots = {} THEN [present |-> FALSE, letters |-> <<>>]
        ELSE IF \A k \in 1..(last - 1) : name[k] = "." THEN [present |-> FALSE, letters |-> <<>>]
        ELSE [present |-> TRUE, letters |-> SubSeq(name, last + 1, Len(name))]

\* the extension spells fmt, letter case aside
Spells(ext, fmt) ==
    /\ Len(ext) = Len(fmt)
    /\ \A i \in 1..Len(fmt) : ext[i] = fmt[i] \/ ext[i] = UpperOf[fmt[i]]

ExtensionSupported ==
    /\ NameExtension.present
    /\ \E fmt \in { <<"j", "p", "g">>, <<"j", "p", "e", "g">>, <<"p", "n", "g">>,
                     <<"g", "i", "f">>, <<"w", "e", "b", "p">> } :
           Spells(NameExtension.letters, fmt)

\* C11: validate_image raises the format violation iff the extension of the
\* file name, letter case aside, is not one of jpg, jpeg, png, gif, webp; a
\* name without an extension is rejected.
C11_FormatCheck ==
    pc = "validated" =>
        /\ HasEntry({"format"}) <=> ~ExtensionSupported
        /\ ~NameExtension.present => (HasEntry({"format"}) /\ ~is_valid)

\* a name with an upper-case supported extension passed the format check, and
\* it is not the spelling of config.py
C11_Witness ==
    /\ pc = "validated"
    /\ uploaded_file.name = <<"a", ".", "J", "P", "E", "G">>
    /\ ~HasEntry({"format"})

----------------------------------------------------------------------------
(* sanitize_filename on its own: every file name *)

NameAlphabet == {"a", "A", "_", "-", ".", " "}

MaxNameLen == 4

FileNames == UNION { [1..n -> NameAlphabet] : n \in 1..MaxNameLen }

InitSanitize ==
    /\ pc = "sanitize"
    /\ uploaded_file \in [name : FileNames, size : {2 * BytesPerMB}, type : {"image/png"},
                           decodable : {TRUE}, width : {1}, height : {1}, pos : {0}]
    /\ model = "openai-gpt-4.1"
    /\ prompt = DEFAULT_PROMPT
    /\ is_valid = TRUE
    /\ error_msg = NoMessage
    /\ PipelineIdle

\* sanitized_name = self.sanitize_filename(uploaded_file.name)
SanitizeFilename ==
    /\ pc = "sanitize"
    /\ file_path' = sanitize_filename(uploaded_file.name)
    /\ pc' = "sanitized"
    /\ UNCHANGED <<uploaded_file, model, prompt, is_valid, error_msg, clock, connection_string,
                   temp_stage, run_log, blob_store, connection, catalog, snowflake_file_path,
                   query, result, ui, trace, sessions>>

\* sanitize_filename applied to the name it returned
SanitizeAgain ==
    /\ pc = "sanitized"
    /\ file_path' = sanitize_filename(file_path)
    /\ trace' = <<Event("sanitize_filename", "returned", file_path)>>
    /\ pc' = "sanitized_again"
    /\ UNCHANGED <<uploaded_file, model, prompt, is_valid, error_msg, clock, connection_string,
                   temp_stage, run_log, blob_store, connection, catalog, snowflake_file_path,
                   query, result, ui, sessions>>

NextSanitize ==
    \/ SanitizeFilename
    \/ SanitizeAgain

SpecSanitize == InitSanitize /\ [][NextSanitize]_vars

Alphanumerics == {"a", "A"}

\* C12: the output of sanitize_filename holds only alphanumerics, hyphens,
\* underscores and a single extension separator ".", and has no leading
\* underscore, no trailing underscore and no two underscores in a row.
C12_SanitizedCharset ==
    pc = "sanitized" =>
        /\ \A i \in 1..Len(file_path) : file_path[i] \in Alphanumerics \cup {"-", "_", "."}
        /\ Cardinality({i \in 1..Len(file_path) : file_path[i] = "."}) <= 1
        /\ file_path # <<>> => (file_path[1] # "_" /\ file_path[Len(file_path)] # "_")
        /\ \A i \in 1..(Len(file_path) - 1) : ~(file_path[i] = "_" /\ file_path[i + 1] = "_")

----------------------------------------------------------------------------
(* upload_image on its own: two sessions uploading side by side *)

Sessions == {1, 2}

MaxTicks == 2

UploadNames == { <<"a", " ", "b">> \o png, <<"a", "_", "b">> \o png, <<"a">> \o jpg }

NotReturned == [returned |-> FALSE, success |-> FALSE, blob_url |-> <<>>, relative_path |-> <<>>]

\* UploadFailure handing back the key it had formed
UploadFailure_PartialPath(msg, blob_name) ==
    [returned |-> TRUE, success |-> FALSE, blob_url |-> msg, relative_path |-> blob_name]

\* return False, <message>, ""
UploadFailure(msg, blob_name) ==
    [returned |-> TRUE, success |-> FALSE, blob_url |-> msg, relative_path |-> <<>>]

\* return True, blob_url, blob_name
UploadSuccess(blob_name) ==
    [returned |-> TRUE, success |-> TRUE, blob_url |-> <<"https://">> \o blob_name,
     relative_path |-> blob_name]

InitUpload ==
    /\ pc = "upload"
    /\ sessions \in [Sessions -> [pc : {"idle"}, file : [name : UploadNames, size : {0},
                                                         type : {"image/png"}],
                                  at : {0}, blob_name : {<<>>}, ret : {NotReturned}]]
    /\ uploaded_file = [name |-> sessions[1].file.name, size |-> BytesPerMB, type |-> "image/png",
                        decodable |-> TRUE, width |-> 1, height |-> 1, pos |-> 0]
    /\ model = "openai-gpt-4.1"
    /\ prompt = DEFAULT_PROMPT
    /\ is_valid = TRUE
    /\ error_msg = NoMessage
    /\ clock = 0
    /\ connection_string \in {"None", "set"}
    /\ temp_stage = NoStage
    /\ run_log = <<>>
    /\ blob_store = {}
    /\ file_path = <<>>
    /\ connection = "None"
    /\ catalog = {}
    /\ snowflake_file_path = <<>>
    /\ query = <<>>
    /\ result = NoResult
    /\ ui = <<>>
    /\ trace = <<>>

\* the wall clock passes a second
Tick ==
    /\ clock < MaxTicks
    /\ clock' = clock + 1
    /\ UNCHANGED <<pc, uploaded_file, model, prompt, is_valid, error_msg, connection_string,
                   temp_stage, run_log, blob_store, file_path, connection, catalog,
                   snowflake_file_path, query, result, ui, trace, sessions>>

\* the file of session s: each session submits its own bytes
SessionFile(s) == [sessions[s].file EXCEPT !.size = s * BytesPerMB]

\* lines 62-74: the connection-string test, the client objects and the key
UploadImageBegin(s) ==
    /\ sessions[s].pc = "idle"
    /\ IF connection_string = "None"
       THEN sessions' = [sessions EXCEPT ![s].pc = "returned",
                            ![s].ret = UploadFailure(<<"Azure connection string not configured in secrets">>,
                                                     <<>>)]
       ELSE \/ sessions' = [sessions EXCEPT ![s].pc = "returned",
                               ![s].ret = UploadFailure(<<"Azure upload error">>, <<>>)]
            \/ sessions' = [sessions EXCEPT ![s].pc = "named", ![s].at = clock,
                               ![s].blob_name = BlobName(clock, sessions[s].file.name)]
    /\ UNCHANGED <<pc, uploaded_file, model, prompt, is_valid, error_msg, clock, connection_string,
                   temp_stage, run_log, blob_store, file_path, connection, catalog,
                   snowflake_file_path, query, result, ui, trace>>

\* lines 77-94: upload_blob is called once; when it raises, the service may or
\* may not have stored the object
UploadImageBlob(s) ==
    /\ sessions[s].pc = "named"
    /\ LET key == sessions[s].blob_name
           written == UploadBlob(blob_store, key, SessionFile(s), clock)
           call(outcome) == Event("upload_blob", outcome,
                                  [session |-> s, key |-> key, at |-> sessions[s].at,
                                   name |-> sessions[s].file.name, size |-> SessionFile(s).size])
       IN  \/ /\ blob_store' = written
              /\ trace' = Append(trace, call("ok"))
              /\ sessions' = [sessions EXCEPT ![s].pc = "returned", ![s].ret = UploadSuccess(key)]
           \/ /\ blob_store' \in {blob_store, written}
              /\ trace' = Append(trace, call(IF blob_store' = written THEN "raised_stored"
                                                                      ELSE "raised"))
              /\ sessions' = [sessions EXCEPT ![s].pc = "returned",
                                  ![s].ret = UploadFailure(<<"Azure upload error">>, key)]
    /\ UNCHANGED <<pc, uploaded_file, model, prompt, is_valid, error_msg, clock, connection_string,
                   temp_stage, run_log, file_path, connection, catalog,
                   snowflake_file_path, query, result, ui>>

NextUpload ==
    \/ Tick
    \/ \E s \in Sessions : UploadImageBegin(s)
    \/ \E s \in Sessions : UploadImageBlob(s)

SpecUpload == InitUpload /\ [][NextUpload]_vars

\* the upload_blob calls session s has made
BlobCalls(s) == {i \in 1..Len(trace) : trace[i].step = "upload_blob" /\ trace[i].detail.session = s}

\* C15: upload_image returns no partial result and does not retry: a failure
\* is success=False with a message and an empty relative path; with the
\* connection string missing no blob-store call is made; one invocation calls
\* upload_blob at most once.
C15_NoPartialNoRetry ==
    \A s \in DOMAIN sessions :
        /\ Cardinality(BlobCalls(s)) <= 1
        /\ connection_string = "None" => BlobCalls(s) = {}
        /\ sessions[s].ret.returned =>
              /\ ~sessions[s].ret.success =>
                    (sessions[s].ret.relative_path = <<>> /\ sessions[s].ret.blob_url # <<>>)
              /\ sessions[s].ret.success =>
                    /\ sessions[s].ret.relative_path # <<>>
                    /\ \E b \in blob_store : b.name = sessions[s].ret.relative_path
                    /\ \E i \in BlobCalls(s) : trace[i].outcome = "ok"

\* upload_blob raised after the key had been formed and the call reported
\* failure with an empty path
C15_Witness ==
    \E s \in DOMAIN sessions :
        /\ sessions[s].ret.returned
        /\ ~sessions[s].ret.success
        /\ sessions[s].blob_name # <<>>
        /\ sessions[s].ret.relative_path = <<>>
        /\ Cardinality(BlobCalls(s)) = 1

\* the writes the blob store accepted, in order
Writes == SelectSeq(trace, LAMBDA e : e.step = "upload_blob" /\ e.outcome \in {"ok", "raised_stored"})

\* C16: the key is "images/" + timestamp + "_" + sanitize_filename(name) and
\* an upload overwrites: two requests write the same key iff their sanitized
\* names are equal and their timestamps are of the same second, the later
\* write then replaces the earlier object, and uploads of different seconds
\* leave distinct objects.
C16_KeyCollisions ==
    /\ \A i \in 1..Len(Writes) :
          Writes[i].detail.key = <<"images", "/">> \o Timestamp(Writes[i].detail.at) \o <<"_">>
                                   \o sanitize_filename(Writes[i].detail.name)
    /\ \A i, j \in 1..Len(Writes) :
          i < j =>
            /\ Writes[i].detail.key = Writes[j].detail.key
                  <=> /\ sanitize_filename(Writes[i].detail.name)
                            = sanitize_filename(Writes[j].detail.name)
                      /\ Writes[i].detail.at = Writes[j].detail.at
            /\ Writes[i].detail.at # Writes[j].detail.at =>
                  \E a, b \in blob_store :
                      /\ a # b
                      /\ a.name = Writes[i].detail.key
                      /\ b.name = Writes[j].detail.key
    /\ \A i \in 1..Len(Writes) :
          LET same == {k \in 1..Len(Writes) : Writes[k].detail.key = Writes[i].detail.key}
              last == CHOOSE k \in same : \A l \in same : l <= k
              objects == {b \in blob_store : b.name = Writes[i].detail.key}
          IN  /\ Cardinality(objects) = 1
              /\ \A b \in objects : b.size = Writes[last].detail.size

\* two sessions with different names of one sanitized form wrote in the same
\* second, and the store holds only the later object
C16_Witness ==
    /\ Len(Writes) = 2
    /\ Writes[1].detail.name # Writes[2].detail.name
    /\ Writes[1].detail.key = Writes[2].detail.key
    /\ Cardinality(blob_store) = 1
    /\ \A b \in blob_store : b.size = Writes[2].detail.size

----------------------------------------------------------------------------
(* The stream of the submission *)

\* C17: after validate_image returns for a stricter-class model the stream of
\* the submission is at position 0, whether decoding succeeded or failed; for
\* a general-class model the stream is where it was before the call.
C17_StreamAtStart ==
    pc \in {"validated", "validated_streamlit"} =>
        /\ IsStricter => uploaded_file.pos = 0
        /\ ~IsStricter => uploaded_file.pos = trace[1].detail

----------------------------------------------------------------------------
(* streamlit_app.py: ensure_list, on every value a list-shaped field can hold *)

\* the values of a field of the parsed response
None == [t |-> "none"]

Str(text) == [t |-> "str", s |-> text]

List(items) == [t |-> "list", items |-> items]

Dict(items) == [t |-> "dict", items |-> items]

Number == [t |-> "number"]

\* a key of a mapping: an int, or a string of digits as JSON object keys are
IntKey(n) == [t |-> "int", n |-> n, digits |-> <<>>]

StrKey(digits) == [t |-> "str", n |-> 0, digits |-> digits]

\* Python's < on two strings of digits
RECURSIVE DigitsLess(_, _)
DigitsLess(a, b) ==
    IF b = <<>> THEN FALSE
    ELSE IF a = <<>> THEN TRUE
    ELSE IF Head(a) # Head(b) THEN Head(a) < Head(b)
    ELSE DigitsLess(Tail(a), Tail(b))

\* Python's < on two keys of one mapping
KeyLess(a, b) == IF a.t = "int" THEN a.n < b.n ELSE DigitsLess(a.digits, b.digits)

\* [v for k, v in sorted(value.items())]
RECURSIVE SortedValues(_)
SortedValues(items) ==
    IF items = {} THEN <<>>
    ELSE LET first == CHOOSE e \in items : \A o \in items \ {e} : KeyLess(e.k, o.k)
         IN  <<first.v>> \o SortedValues(items \ {first})

\* ensure_list without the branch for a single string
ensure_list_DropsStrings(value) ==
    IF value.t = "none" THEN List(<<>>)
    ELSE IF value.t = "list" THEN value
    ELSE IF value.t = "dict" THEN List(SortedValues(value.items))
    ELSE List(<<>>)

\* ensure_list without the branch for a list
ensure_list_NoListBranch(value) ==
    IF value.t = "none" THEN List(<<>>)
    ELSE IF value.t = "dict" THEN List(SortedValues(value.items))
    ELSE IF value.t = "str" THEN List(<<value.s>>)
    ELSE List(<<>>)

ensure_list(value) ==
    IF value.t = "none" THEN List(<<>>)
    ELSE IF value.t = "list" THEN value
    ELSE IF value.t = "dict" THEN List(SortedValues(value.items))
    ELSE IF value.t = "str" THEN List(<<value.s>>)
    ELSE List(<<>>)

Items == {"crack", "none"}

MaxItems == 2

IntKeys == {IntKey(0), IntKey(2), IntKey(10)}

StrKeys == {StrKey(<<0>>), StrKey(<<2>>), StrKey(<<1, 0>>)}

\* the mappings over a set of keys
Mappings(keys) ==
    UNION { { {[k |-> k, v |-> f[k]] : k \in S} : f \in [S -> Items] } : S \in SUBSET keys }

FieldValues ==
    {None, Number}
    \cup {Str(i) : i \in Items}
    \cup {List(l) : l \in UNION { [1..n -> Items] : n \in 0..MaxItems }}
    \cup {Dict(m) : m \in Mappings(IntKeys) \cup Mappings(StrKeys)}

InitEnsureList ==
    /\ pc = "ensure_list"
    /\ uploaded_file = [name |-> <<"a">> \o jpg, size |-> BytesPerMB, type |-> "image/png",
                        decodable |-> TRUE, width |-> 1, height |-> 1, pos |-> 0]
    /\ model = "openai-gpt-4.1"
    /\ prompt = DEFAULT_PROMPT
    /\ is_valid = TRUE
    /\ error_msg = NoMessage
    /\ clock = 0
    /\ connection_string = "None"
    /\ temp_stage = NoStage
    /\ run_log = <<>>
    /\ blob_store = {}
    /\ file_path = <<>>
    /\ connection = "None"
    /\ catalog = {}
    /\ snowflake_file_path = <<>>
    /\ query = <<>>
    /\ result \in {Returned(TRUE, v) : v \in FieldValues}
    /\ ui = <<>>
    /\ trace = <<>>
    /\ sessions = <<>>

\* ensure_list(value), on the field as it arrived and on a field already
\* normalized
EnsureList ==
    /\ pc \in {"ensure_list", "normalized"}
    /\ result' = Returned(TRUE, ensure_list(result.value))
    /\ trace' = Append(trace, Event("ensure_list", "returned", result.value))
    /\ pc' = IF pc = "ensure_list" THEN "normalized" ELSE "normalized_again"
    /\ UNCHANGED <<uploaded_file, model, prompt, is_valid, error_msg, clock, connection_string,
                   temp_stage, run_log, blob_store, file_path, connection, catalog,
                   snowflake_file_path, query, ui, sessions>>

NextEnsureList == EnsureList

SpecEnsureList == InitEnsureList /\ [][NextEnsureList]_vars

\* the value ensure_list was given first
Given == trace[1].detail

\* the number of entries of the mapping whose key comes before k
Rank(mapping, k) == Cardinality({e \in mapping : KeyLess(e.k, k)})

\* C18: ensure_list follows the normalization rule: None gives the empty
\* sequence, a mapping gives its values in ascending order of key, a string
\* gives the one-element sequence holding it, a sequence is returned as it is.
C18_NormalizationRule ==
    pc = "normalized" =>
        /\ result.value.t = "list"
        /\ Given.t = "none" => result.value.items = <<>>
        /\ Given.t = "str" => result.value.items = <<Given.s>>
        /\ Given.t = "list" => result.value = Given
        /\ Given.t = "dict" =>
              /\ Len(result.value.items) = Cardinality(Given.items)
              /\ \A e \in Given.items : result.value.items[Rank(Given.items, e.k) + 1] = e.v

\* a mapping given with its keys out of order came back as its values by
\* ascending key
C18_Witness ==
    /\ pc = "normalized"
    /\ Given = Dict({[k |-> IntKey(10), v |-> "crack"], [k |-> IntKey(2), v |-> "none"]})
    /\ result.value.items = <<"none", "crack">>

\* C19: normalization is idempotent: ensure_list(ensure_list(v)) equals
\* ensure_list(v) for None, a string, a mapping and a sequence.
C19_Idempotent ==
    pc = "normalized_again" =>
        /\ trace[2].detail.t = "list"
        /\ result.value = trace[2].detail

\* a single string was normalized twice and stayed the one-element sequence
C19_Witness ==
    /\ pc = "normalized_again"
    /\ Given = Str("crack")
    /\ result.value = List(<<"crack">>)

----------------------------------------------------------------------------
(* The presentation step of app.py and of streamlit_app.py, on every shape *)
(* of a successfully returned response                                     *)

\* a parsed response together with the values of its fields
WithFields(payload, fields) ==
    [t |-> payload.t, keys |-> payload.keys, choices |-> payload.choices,
     is_cracked |-> payload.is_cracked, fields |-> fields]

DirectObject(fields, cracked) ==
    WithFields(Payload("dict", DOMAIN fields, "absent", cracked), fields)

\* the values each field of a direct object can arrive with
FieldChoices ==
    [material         |-> {Str("crack"), None},
     defects          |-> {Str("crack"), List(<<"crack">>), None},
     repairs_required |-> {None, Str("none"), List(<<"crack">>), List(<<>>)},
     defect_severity  |-> {Str("none"), None}]

DirectObjects ==
    UNION { { DirectObject(f, cracked) :
                  f \in {g \in [S -> UNION {FieldChoices[k] : k \in S}] :
                            \A k \in S : g[k] \in FieldChoices[k]},
                  cracked \in BOOLEAN } :
              S \in SUBSET DOMAIN FieldChoices }

Responses ==
    DirectObjects
    \cup { WithFields(payload, <<>>) : payload \in {q \in Payloads : q.keys \cap DirectKeys = {}} }

\* ai_result.get(key)
Field(ai_result, key) == IF key \in DOMAIN ai_result.fields THEN ai_result.fields[key] ELSE None

\* streamlit_app.py lines 442-549: what is shown, and the exception that
\* leaves the block when a statement raises (there is no handler around it)
StreamlitPresentation(value) ==
    LET ai_result == value.ai_result
        Done(shown) == [raised |-> FALSE, exc |-> "none", shown |-> shown]
        Raise(exc, shown) == [raised |-> TRUE, exc |-> exc, shown |-> shown]
        summary == <<UI("markdown", "summary"), UI("table", "summary"), UI("json", "ai_result"),
                     UI("json", "log_entry")>>
        repairs == ensure_list(Field(ai_result, "repairs_required"))
        defects == ensure_list(Field(ai_result, "defects"))
        material == IF Field(ai_result, "material").t = "str" THEN <<UI("markdown", "material")>>
                    ELSE <<>>
        cracked == <<UI("metric", IF ai_result.is_cracked THEN "Cracked: Yes" ELSE "Cracked: No")>>
        lists == (IF defects.items # <<>> THEN <<UI("markdown", "defects")>> ELSE <<>>)
                 \o (IF repairs.items # <<>> THEN <<UI("markdown", "repairs")>> ELSE <<>>)
    IN  IF ai_result.t = "null" THEN Raise("TypeError", <<>>)
        ELSE IF ai_result.t = "str"
        THEN Raise("AttributeError", <<UI("markdown", "message_content"), UI("markdown", "summary")>>)
        ELSE IF "choices" \in ai_result.keys /\ ai_result.choices = "null"
        THEN Raise("TypeError", <<>>)
        ELSE IF "choices" \in ai_result.keys /\ ai_result.choices = "one"
        THEN Done(<<UI("markdown", "message_content")>> \o summary)
        ELSE IF ai_result.keys \cap {"material", "defects", "repairs_required"} # {}
        THEN IF repairs.items = <<>> THEN Raise("IndexError", cracked)
             ELSE IF /\ "defect_severity" \in ai_result.keys
                     /\ Field(ai_result, "defect_severity").t # "str"
             THEN Raise("AttributeError", cracked \o <<UI("metric", "findings")>>)
             ELSE IF "material" \notin ai_result.keys
             THEN Raise("KeyError", cracked \o <<UI("metric", "findings")>>)
             ELSE Done(cracked \o <<UI("metric", "findings")>> \o material \o lists \o summary)
        ELSE Done(summary)

\* streamlit_app_select_only.py lines 223-269: what is shown, and the exception
\* that leaves the block when a statement raises (there is no handler either)
SelectOnlyPresentation(value) ==
    LET ai_result == value.ai_result
        shown == <<UI("metric", "metadata"), UI("json", "ai_result")>>
    IN  IF ai_result.t = "null"
        THEN [raised |-> TRUE, exc |-> "TypeError", shown |-> shown]
        ELSE IF ai_result.t = "dict" /\ "choices" \in ai_result.keys /\ ai_result.choices = "null"
        THEN [raised |-> TRUE, exc |-> "TypeError", shown |-> shown]
        ELSE IF ai_result.t = "dict" /\ "choices" \in ai_result.keys /\ ai_result.choices = "one"
        THEN [raised |-> FALSE, exc |-> "none",
              shown |-> shown \o <<UI("markdown", "message_content"), UI("table", "summary")>>]
        ELSE [raised |-> FALSE, exc |-> "none",
              shown |-> shown \o <<UI("warning", "unexpected_format")>>]

ResponseMetadata == [file_path |-> <<"a">> \o jpg, file_size_bytes |-> 7, last_modified |-> <<"str", 0>>]

InitPresent ==
    /\ pc \in {"present_app", "present_streamlit", "present_select_only"}
    /\ uploaded_file = [name |-> <<"a">> \o jpg, size |-> BytesPerMB, type |-> "image/png",
                        decodable |-> TRUE, width |-> 1, height |-> 1, pos |-> 0]
    /\ model = "openai-gpt-4.1"
    /\ prompt = DEFAULT_PROMPT
    /\ is_valid = TRUE
    /\ error_msg = NoMessage
    /\ clock = 0
    /\ connection_string = "None"
    /\ temp_stage = NoStage
    /\ run_log = <<>>
    /\ blob_store = {}
    /\ file_path = <<>>
    /\ connection = "open"
    /\ catalog = {}
    /\ snowflake_file_path = <<>>
    /\ query = <<>>
    /\ \E r \in Responses :
           \* analyze_image returns success only for a non-empty payload
           /\ pc = "present_app" => Truthy(r)
           /\ result = Returned(TRUE, [kind |-> "response", ai_result |-> r,
                                        metadata |-> ResponseMetadata])
    /\ ui = <<>>
    /\ trace = <<>>
    /\ sessions = <<>>

\* app.py lines 210-265
AppPresent ==
    /\ pc = "present_app"
    /\ LET p == Presentation(result.value)
       IN  ui' = ui \o p.shown \o
                 (IF p.raised THEN <<UI("warning", "parse"), UI("text", "raw_result")>> ELSE <<>>)
    /\ trace' = Append(trace, Event("present", "ok", "none"))
    /\ connection' = close(connection)
    /\ pc' = "presented"
    /\ UNCHANGED <<uploaded_file, model, prompt, is_valid, error_msg, clock, connection_string,
                   temp_stage, run_log, blob_store, file_path, catalog, snowflake_file_path,
                   query, result, sessions>>

\* streamlit_app.py lines 439-552
StreamlitPresent ==
    /\ pc = "present_streamlit"
    /\ LET p == StreamlitPresentation(result.value)
       IN  /\ ui' = ui \o p.shown
           /\ trace' = Append(trace, Event("present", IF p.raised THEN "raised" ELSE "ok", p.exc))
           /\ pc' = IF p.raised THEN "crashed" ELSE "presented"
    /\ UNCHANGED <<uploaded_file, model, prompt, is_valid, error_msg, clock, connection_string,
                   temp_stage, run_log, blob_store, file_path, connection, catalog,
                   snowflake_file_path, query, result, sessions>>

\* streamlit_app_select_only.py lines 215-269
SelectOnlyPresent ==
    /\ pc = "present_select_only"
    /\ LET p == SelectOnlyPresentation(result.value)
       IN  /\ ui' = ui \o p.shown
           /\ trace' = Append(trace, Event("present", IF p.raised THEN "raised" ELSE "ok", p.exc))
           /\ pc' = IF p.raised THEN "crashed" ELSE "presented"
    /\ UNCHANGED <<uploaded_file, model, prompt, is_valid, error_msg, clock, connection_string,
                   temp_stage, run_log, blob_store, file_path, connection, catalog,
                   snowflake_file_path, query, result, sessions>>

NextPresent ==
    \/ AppPresent
    \/ StreamlitPresent
    \/ SelectOnlyPresent

SpecPresent == InitPresent /\ [][NextPresent]_vars

\* C20: for a successfully returned response whose fields are missing or
\* unexpected, the presentation step ends without an uncaught exception and
\* the raw output is shown.
C20_PresentationDegrades ==
    /\ pc # "crashed"
    /\ pc = "presented" => (Shown("json", "ai_result") \/ Shown("text", "raw_result"))

\* the response is a chat-completion envelope with an empty choices array
EmptyChoices ==
    /\ result.value.ai_result.t = "dict"
    /\ "choices" \in result.value.ai_result.keys
    /\ result.value.ai_result.choices = "empty"

\* C21: when the response is a chat-completion envelope whose choices array is
\* empty, every presentation variant shows a data-shape warning and does not
\* crash.
C21_EmptyChoicesWarned ==
    (pc \in {"presented", "crashed"} /\ EmptyChoices) =>
        /\ pc = "presented"
        /\ \E k \in 1..Len(ui) : ui[k].kind = "warning"

----------------------------------------------------------------------------
(* End-to-end scenarios of the app.py pipeline *)

\* C22: in a request where validation passes (2 MB JPEG, general-class
\* model), upload succeeds, the catalog refresh succeeds and the query returns
\* a direct object with is_cracked true, the presentation step is reached and
\* the summary shows the Cracked indicator as "Yes".
C22_CrackedShown ==
    ( /\ pc = "done"
      /\ uploaded_file.size = 2 * 1024 * 1024
      /\ uploaded_file.name = <<"a", ".", "j", "p", "g">>
      /\ model \notin CLAUDE_MODELS
      /\ Happened("validate", "ok")
      /\ Happened("upload", "ok")
      /\ Happened("refresh", "ok")
      /\ Happened("analyze", "ok")
      /\ result.value.ai_result.keys = DirectKeys
      /\ result.value.ai_result.is_cracked )
    => /\ Happened("present", "ok")
       /\ Shown("metric", "Cracked: Yes")

----------------------------------------------------------------------------
(* analyze_with_uploaded_file, statement by statement, in two sessions that *)
(* share temp_upload_stage and AI_IMAGE_RUN_LOG                             *)

StagingNames == { <<"a">> \o jpg, <<"b">> \o png }

\* the payloads the INSERT can store
StagingPayloads == { Payload("dict", DirectKeys, "absent", TRUE), Payload("null", {}, "absent", FALSE) }

\* a stage an earlier request left behind
LeftoverStage ==
    [exists |-> TRUE, files |-> {TempFilename(0, <<"old">> \o png)},
     listed |-> {TempFilename(0, <<"old">> \o png)}]

InitStaging ==
    /\ pc = "staging"
    /\ sessions \in [Sessions -> [pc : {"idle"}, filename : StagingNames, temp_filename : {<<>>},
                                  rows : {"not_run"}, inserted : {<<>>}, ret : {NoResult}]]
    /\ uploaded_file = [name |-> sessions[1].filename, size |-> BytesPerMB, type |-> "image/png",
                        decodable |-> TRUE, width |-> 1, height |-> 1, pos |-> 0]
    /\ model = "openai-gpt-4.1"
    /\ prompt = DEFAULT_PROMPT
    /\ is_valid = TRUE
    /\ error_msg = NoMessage
    /\ clock = 1
    /\ connection_string = "None"
    /\ temp_stage \in {NoStage, LeftoverStage}
    /\ run_log \in {<<>>, <<OldLogRow>>}
    /\ blob_store = {}
    /\ file_path = <<>>
    /\ connection = "open"
    /\ catalog = {}
    /\ snowflake_file_path = <<>>
    /\ query = <<>>
    /\ result = NoResult
    /\ ui = <<>>
    /\ trace = <<>>

\* the variables a statement of analyze_with_uploaded_file leaves alone
staging_frame ==
    <<pc, uploaded_file, model, prompt, is_valid, error_msg, clock, connection_string,
      blob_store, file_path, connection, catalog, snowflake_file_path, query, result, ui, trace>>

\* lines 313-314: return False, "Analysis error: ..."
StagingFailed(s) ==
    [sessions EXCEPT ![s].pc = "returned", ![s].ret = Returned(FALSE, Message("Analysis error"))]

\* lines 121-131: the timestamp, the temporary name and the local file
StagingBegin(s) ==
    /\ sessions[s].pc = "idle"
    /\ sessions' = [sessions EXCEPT ![s].pc = "drop",
                        ![s].temp_filename = TempFilename(clock, sessions[s].filename)]
    /\ UNCHANGED <<temp_stage, run_log>>
    /\ UNCHANGED staging_frame

\* lines 138-141: DROP STAGE IF EXISTS; an error of the statement is ignored
StagingDrop(s) ==
    /\ sessions[s].pc = "drop"
    /\ temp_stage' \in {NoStage, temp_stage}
    /\ sessions' = [sessions EXCEPT ![s].pc = "create"]
    /\ UNCHANGED run_log
    /\ UNCHANGED staging_frame

\* lines 143-147: CREATE STAGE, which fails when the stage exists
StagingCreate(s) ==
    /\ sessions[s].pc = "create"
    /\ IF temp_stage.exists
       THEN /\ sessions' = StagingFailed(s)
            /\ UNCHANGED temp_stage
       ELSE /\ temp_stage' = [exists |-> TRUE, files |-> {}, listed |-> {}]
            /\ sessions' = [sessions EXCEPT ![s].pc = "put"]
    /\ UNCHANGED run_log
    /\ UNCHANGED staging_frame

\* lines 150-158: session.file.put(..., overwrite=True)
StagingPut(s) ==
    /\ sessions[s].pc = "put"
    /\ IF ~temp_stage.exists
       THEN /\ sessions' = StagingFailed(s)
            /\ UNCHANGED temp_stage
       ELSE /\ temp_stage' = [temp_stage EXCEPT !.files = @ \cup {sessions[s].temp_filename}]
            /\ sessions' = [sessions EXCEPT ![s].pc = "refresh"]
    /\ UNCHANGED run_log
    /\ UNCHANGED staging_frame

\* lines 160-164: ALTER STAGE ... REFRESH
StagingRefresh(s) ==
    /\ sessions[s].pc = "refresh"
    /\ IF ~temp_stage.exists
       THEN /\ sessions' = StagingFailed(s)
            /\ UNCHANGED temp_stage
       ELSE /\ temp_stage' = [temp_stage EXCEPT !.listed = temp_stage.files]
            /\ sessions' = [sessions EXCEPT ![s].pc = "insert"]
    /\ UNCHANGED run_log
    /\ UNCHANGED staging_frame

\* lines 197-285: INSERT INTO AI_IMAGE_RUN_LOG ... SELECT over the directory
\* rows of the staged file
StagingInsert(s) ==
    /\ sessions[s].pc = "insert"
    /\ LET q == InsertQuery(sessions[s].temp_filename, sessions[s].filename, prompt, model)
           path == ValueRead(q, "path", 3)
           run_id == Len(run_log) + 1
       IN  IF ~temp_stage.exists \/ ~WellFormed(q)
           THEN /\ sessions' = StagingFailed(s)
                /\ UNCHANGED run_log
           ELSE IF path \in temp_stage.listed
           THEN \E payload \in StagingPayloads :
                   /\ run_log' = Append(run_log, LogRow(run_id, clock, ValueRead(q, "path", 1),
                                                        path, payload))
                   /\ sessions' = [sessions EXCEPT ![s].pc = "fetch", ![s].rows = "one",
                                                   ![s].inserted = <<run_id>>]
           ELSE /\ sessions' = [sessions EXCEPT ![s].pc = "fetch", ![s].rows = "zero"]
                /\ UNCHANGED run_log
    /\ UNCHANGED temp_stage
    /\ UNCHANGED staging_frame

\* lines 287-311: SELECT * FROM AI_IMAGE_RUN_LOG ORDER BY run_ts DESC LIMIT 1
StagingFetch(s) ==
    /\ sessions[s].pc = "fetch"
    /\ IF run_log = <<>>
       THEN sessions' = [sessions EXCEPT ![s].pc = "returned",
                            ![s].ret = Returned(FALSE, Message("No result returned from Snowflake"))]
       ELSE \E i \in LatestRows(run_log) :
               sessions' = [sessions EXCEPT ![s].pc = "returned",
                               ![s].ret = Returned(TRUE, LogResponse(run_log[i]))]
    /\ UNCHANGED <<temp_stage, run_log>>
    /\ UNCHANGED staging_frame

\* a statement raises for a reason of its own (the local file cannot be
\* written, the warehouse is unreachable)
StagingRaises(s) ==
    /\ sessions[s].pc \in {"idle", "create", "put", "refresh", "insert", "fetch"}
    /\ sessions' = StagingFailed(s)
    /\ UNCHANGED <<temp_stage, run_log>>
    /\ UNCHANGED staging_frame

NextStaging ==
    \/ \E s \in Sessions : StagingBegin(s)
    \/ \E s \in Sessions : StagingDrop(s)
    \/ \E s \in Sessions : StagingCreate(s)
    \/ \E s \in Sessions : StagingPut(s)
    \/ \E s \in Sessions : StagingRefresh(s)
    \/ \E s \in Sessions : StagingInsert(s)
    \/ \E s \in Sessions : StagingFetch(s)
    \/ \E s \in Sessions : StagingRaises(s)

SpecStaging == InitStaging /\ [][NextStaging]_vars

\* C24: analyze_with_uploaded_file returns success only with the audit-log row
\* its own INSERT produced: when its INSERT yields no row it returns the "no
\* result" failure, not an earlier run's row, and with two requests
\* interleaved each returned result and run_id are of the row that request
\* inserted.
C24_OwnRowReturned ==
    \A s \in DOMAIN sessions :
        sessions[s].pc = "returned" =>
            /\ sessions[s].ret.success =>
                  /\ sessions[s].inserted # <<>>
                  /\ sessions[s].ret.value.metadata.run_id = sessions[s].inserted[1]
            /\ (sessions[s].rows = "zero"
                    /\ sessions[s].ret # Returned(FALSE, Message("Analysis error"))) =>
                  sessions[s].ret = Returned(FALSE, Message("No result returned from Snowflake"))

\* C29: requests do not interfere through the shared temporary stage: from a
\* request's PUT of its file into temp_upload_stage until its analysis query
\* has read it, the file stays in the stage whatever the other request does.
C29_StagedFileKept ==
    \A s \in DOMAIN sessions :
        sessions[s].pc \in {"refresh", "insert"} =>
            /\ temp_stage.exists
            /\ sessions[s].temp_filename \in temp_stage.files

\* C25: when the catalog holds an entry whose relative path is the key just
\* written, the directory lookup of app.py resolves to that entry's path and
\* to no other object's, whatever else the stage holds.
C25_LookupResolvesWrittenKey ==
    (/\ Happened("directory", "found")
     /\ \E e \in catalog : e.relative_path = file_path)
    => snowflake_file_path = file_path

\* C26: streamlit_app.validate_image and ImageValidator.validate_image give
\* the same validity verdict for every filename, size, model and image.
C26_SameVerdict ==
    /\ pc = "validated" =>
          is_valid = streamlit_validate_image(uploaded_file, model).is_valid
    /\ pc = "validated_streamlit" =>
          is_valid = validate_image(uploaded_file, model).is_valid

\* the characters a stage path may hold: what \w matches, the hyphen, the dot
PathCharacter(e) == e \notin NonWord \ {"-", "."}

\* C27: in the app.py pipeline the basename interpolated into the
\* directory-lookup query, for every uploaded filename that passed
\* validation, holds no single quote: it holds only alphanumerics,
\* underscores, hyphens and one dot.
C27_BasenameIsClean ==
    (Happened("validate", "ok") /\ \E j \in Steps : trace[j].step = "directory") =>
        LET basename == Basename(file_path)
        IN  /\ \A i \in 1..Len(basename) : basename[i] # Quote /\ PathCharacter(basename[i])
            /\ Cardinality({i \in 1..Len(basename) : basename[i] = "."}) = 1

C27_Witness ==
    /\ uploaded_file.name = <<"a", "'", "b">> \o png
    /\ Happened("validate", "ok")
    /\ Happened("directory", "found")
    /\ Basename(file_path) = Timestamp(clock) \o <<"_", "a", "_", "b">> \o png

\* C28: sanitize_filename is idempotent: applied to its own output it returns
\* that output, for every filename, those whose name part is empty or is made
\* of stripped characters only included.
C28_SanitizeIdempotent ==
    pc = "sanitized_again" => file_path = trace[1].detail

====
